---- MODULE Spec2Model ----
(***************************************************************************)
(* QuickSearch API (src/main.py): the /search and /read handlers.          *)
(*                                                                         *)
(* Every request is one coroutine.  It only yields at its awaits (the      *)
(* outbound GET and POST), so one action of the model is the code that     *)
(* runs between two awaits; the reply of the network (cookies, page,       *)
(* document, exception) is the input of the action that consumes it.       *)
(***************************************************************************)
EXTENDS Integers, Sequences, FiniteSets, TLC

(* ---- bounds of the model ---- *)
NumReqs == 2         \* concurrent request slots
MaxElems == 8        \* ".result" elements on a provider page
MaxLimit == 5        \* largest explicit ?limit= value tried
MaxNodes == 3        \* nodes of a fetched document
MaxTextLen == 5      \* characters of a text node (text specification)

(* ---- program constants ---- *)
LimitDefault == 10
LimitGe == 1
LimitLe == 50
StatusOk == 200
StatusFetchError == 400
StatusParseError == 500

VARIABLES
  pc,          \* per request: "idle", "get" (awaiting GET), "post" (awaiting POST), "done"
  kind,        \* per request: "none", "search", "read"
  q,           \* /search: the query
  max_results, \* /search: the limit handed to search_duckduckgo
  url,         \* /read: the url
  nextClient,  \* number of httpx.AsyncClient objects constructed so far
  client,      \* per request: the client it constructed (0: none yet)
  clientState, \* per request: "none", "open", "closed" (async with)
  cookies,     \* per request: local variable cookies (line 29)
  calls,       \* per request: the outbound calls it issued, in order
  page,        \* /search: the elements soup.select(".result") yields for the POST's body
  results,     \* /search: local variable results when search_duckduckgo was left
  doc,         \* /read: the document the GET returned
  container,   \* /read: node chosen as main_content (0: none, whole soup used)
  extracted,   \* /read: BeautifulSoup(response.text) was reached
  raised,      \* per request: where an exception was raised ("no", "get", "post", "parse")
  response     \* per request: what the handler returned to the framework

vars == <<pc, kind, q, max_results, url, nextClient, client, clientState, cookies,
          calls, page, results, doc, container, extracted, raised, response>>

Reqs == 1..NumReqs

NoCookies == "none"
NoResponse == [status |-> 0]
NoDoc == [nodes |-> <<>>, depth |-> <<>>]

Min(a, b) == IF a < b THEN a ELSE b

(***************************************************************************)
(* search_duckduckgo: the result loop (lines 40-57)                        *)
(***************************************************************************)
\* One element soup.select(".result") returns: whether select_one(".result__a")
\* and select_one(".result__snippet") find something in it.
Elems == { [a |-> "none", snippet |-> "snip"],
           [a |-> "link", snippet |-> "none"],
           [a |-> "link", snippet |-> "snip"] }

PagesUpTo(n) == UNION { [1..k -> Elems] : k \in 0..n }

\* line 47: if title_elem and url_elem (both are select_one(".result__a"))
AcceptsAll(elem) == TRUE
Accepts(elem) == elem.a # "none" /\ elem.a # "none"

\* lines 48-52: the appended dict
ResultOf(elem) ==
  [title |-> elem.a, url |-> elem.a,
   description |-> IF elem.snippet # "none" THEN elem.snippet ELSE ""]

\* line 54: if len(results) >= max_results: break
LimitReachedLate(res, n) == Len(res) > n
LimitReached(res, n) == Len(res) >= n

\* lines 42-55: the for loop from element i on; inspected is the number of
\* elements the loop body ran for.
RECURSIVE ResultLoop(_, _, _, _)
ResultLoop(elems, i, res, n) ==
  IF i > Len(elems) THEN [results |-> res, inspected |-> Len(elems)]
  ELSE LET res2 == IF Accepts(elems[i]) THEN Append(res, ResultOf(elems[i])) ELSE res
       IN IF LimitReached(res2, n) THEN [results |-> res2, inspected |-> i]
          ELSE ResultLoop(elems, i + 1, res2, n)

ParseResults(elems, n) == ResultLoop(elems, 1, <<>>, n)

(***************************************************************************)
(* httpx.AsyncClient per call (lines 27, 75)                               *)
(***************************************************************************)
SharedClient(n) == 1
NewClient(n) == n + 1

\* line 36: cookies=cookies
PostWithoutCookies(captured) == NoCookies
PostCookies(captured) == captured

Call(method, c, jar, data) ==
  [method |-> method, client |-> c, cookies |-> jar, data |-> data, outcome |-> "pending"]

Replied(cs, outcome) == [cs EXCEPT ![Len(cs)].outcome = outcome]

(***************************************************************************)
(* /search (lines 107-127)                                                 *)
(***************************************************************************)
\* line 119
ResultsCountIsLimit(res, n) == n
ResultsCount(res, n) == Len(res)

\* lines 117-121
SearchOk(query, res, n) ==
  [status |-> StatusOk,
   body |-> [query |-> query, results_count |-> ResultsCount(res, n), results |-> res]]

\* lines 122-127
SearchError(query, msg) ==
  [status |-> StatusOk, body |-> [query |-> query, error |-> msg, results |-> <<>>]]

\* line 110: Query(10, ge=1, le=50); 0 stands for an absent limit parameter
EffectiveLimit(l) == IF l = 0 THEN LimitDefault ELSE l
LimitParams(top) == {0} \cup (LimitGe..Min(top, LimitLe))

\* The request arrives; search() calls search_duckduckgo, which constructs its
\* client and awaits the GET (lines 108-116, 22-28).
search_begin(r, Qs, Ls) ==
  /\ pc[r] = "idle"
  /\ \E query \in Qs, l \in Ls :
       /\ q' = [q EXCEPT ![r] = query]
       /\ max_results' = [max_results EXCEPT ![r] = EffectiveLimit(l)]
  /\ kind' = [kind EXCEPT ![r] = "search"]
  /\ nextClient' = nextClient + 1
  /\ client' = [client EXCEPT ![r] = NewClient(nextClient)]
  /\ clientState' = [clientState EXCEPT ![r] = "open"]
  /\ calls' = [calls EXCEPT ![r] = <<Call("GET", NewClient(nextClient), NoCookies, "")>>]
  /\ pc' = [pc EXCEPT ![r] = "get"]
  /\ UNCHANGED <<raised, url, cookies, page, results, doc, container, extracted, response>>

\* The GET returned: cookies are captured and the POST is awaited (lines 28-36).
search_get_ok(r, Jars) ==
  /\ pc[r] = "get" /\ kind[r] = "search"
  /\ \E jar \in Jars :
       /\ cookies' = [cookies EXCEPT ![r] = jar]
       /\ calls' = [calls EXCEPT ![r] =
            Append(Replied(calls[r], "ok"),
                   Call("POST", client[r], PostCookies(jar), [q |-> q[r], kl |-> ""]))]
  /\ pc' = [pc EXCEPT ![r] = "post"]
  /\ UNCHANGED <<raised, kind, q, max_results, url, nextClient, client, clientState,
                 page, results, doc, container, extracted, response>>

\* An awaited call raised: the async with block is left (client closed) and
\* search() turns the exception into its error body (lines 27, 122-127).
search_call_raise(r, Msgs) ==
  /\ pc[r] \in {"get", "post"} /\ kind[r] = "search"
  /\ \E msg \in Msgs :
       response' = [response EXCEPT ![r] = SearchError(q[r], msg)]
  /\ calls' = [calls EXCEPT ![r] = Replied(calls[r], "raised")]
  /\ clientState' = [clientState EXCEPT ![r] = "closed"]
  /\ pc' = [pc EXCEPT ![r] = "done"]
  /\ raised' = [raised EXCEPT ![r] = pc[r]]
  /\ UNCHANGED <<kind, q, max_results, url, nextClient, client, cookies,
                 page, results, doc, container, extracted>>

\* The POST returned and the page is parsed to the end (lines 36-57, 117-121).
search_post_ok(r, Pages) ==
  /\ pc[r] = "post" /\ kind[r] = "search"
  /\ \E p \in Pages :
       LET out == ParseResults(p, max_results[r]) IN
       /\ page' = [page EXCEPT ![r] = p]
       /\ results' = [results EXCEPT ![r] = out.results]
       /\ response' = [response EXCEPT ![r] = SearchOk(q[r], out.results, max_results[r])]
  /\ calls' = [calls EXCEPT ![r] = Replied(calls[r], "ok")]
  /\ clientState' = [clientState EXCEPT ![r] = "closed"]
  /\ pc' = [pc EXCEPT ![r] = "done"]
  /\ UNCHANGED <<raised, kind, q, max_results, url, nextClient, client, cookies,
                 doc, container, extracted>>

\* The POST returned and parsing raised after the loop body had run for the
\* first k elements (k = 0: BeautifulSoup or select raised).
search_parse_raise(r, Pages, Msgs) ==
  /\ pc[r] = "post" /\ kind[r] = "search"
  /\ \E p \in Pages, msg \in Msgs :
       \E k \in 0..Len(p) :
         LET out == ParseResults(SubSeq(p, 1, k), max_results[r]) IN
         /\ k = 0 \/ (out.inspected = k /\ ~LimitReached(out.results, max_results[r]))
         /\ k < Len(p) \/ k = 0
         /\ page' = [page EXCEPT ![r] = p]
         /\ results' = [results EXCEPT ![r] = out.results]
         /\ response' = [response EXCEPT ![r] = SearchError(q[r], msg)]
  /\ calls' = [calls EXCEPT ![r] = Replied(calls[r], "ok")]
  /\ clientState' = [clientState EXCEPT ![r] = "closed"]
  /\ pc' = [pc EXCEPT ![r] = "done"]
  /\ raised' = [raised EXCEPT ![r] = "parse"]
  /\ UNCHANGED <<kind, q, max_results, url, nextClient, client, cookies,
                 doc, container, extracted>>

(***************************************************************************)
(* read_url: the parsed document (lines 78-93)                             *)
(*                                                                         *)
(* A document is its nodes in document order, each with its depth in the   *)
(* tree: node j lies inside node i iff j follows i and every node from    *)
(* i+1 to j is deeper than i.  Text nodes (tag "#text") are leaves.        *)
(***************************************************************************)
\* A string is the sequence of its characters.
cls_posts == <<"p", "o", "s", "t", "s">>
cls_content == <<"c", "o", "n", "t", "e", "n", "t">>

Element(tag, class) == [tag |-> tag, class |-> class, text |-> <<>>]
Text(chars) == [tag |-> "#text", class |-> <<>>, text |-> chars]

ElementKinds ==
  { Element("main", <<>>), Element("article", <<>>), Element("div", cls_posts),
    Element("section", cls_content), Element("body", <<>>), Element("nav", <<>>),
    Element("script", <<>>), Element("title", <<>>) }

TextKinds == { Text(<<"A">>), Text(<<"\n", "B", "\n", "\n", "C", " ">>) }

WellFormed(d) ==
  /\ Len(d.nodes) = Len(d.depth)
  /\ Len(d.nodes) > 0 => d.depth[1] = 1
  /\ \A i \in 1..(Len(d.nodes) - 1) :
       d.depth[i + 1] <= (IF d.nodes[i].tag = "#text" THEN d.depth[i] ELSE d.depth[i] + 1)

DocsOver(Kinds, n) ==
  UNION { { d \in [nodes : [1..k -> Kinds], depth : [1..k -> 1..k]] : WellFormed(d) }
          : k \in 0..n }

\* Every string of up to n characters over the alphabet.
StringsUpTo(Alphabet, n) == UNION { [1..k -> Alphabet] : k \in 0..n }

\* Documents that are one text node.
TextDocs(Alphabet, n) ==
  { [nodes |-> <<Text(t)>>, depth |-> <<1>>] : t \in StringsUpTo(Alphabet, n) }

Inside(d, i, j) == j > i /\ \A k \in (i + 1)..j : d.depth[k] > d.depth[i]

\* Tag.decompose(): the tag and everything inside it leave the tree
Unwrapped(d, i) == {i}
Decomposed(d, i) == {i} \cup { j \in 1..Len(d.nodes) : Inside(d, i, j) }

\* line 83
RemovedTags == {"script", "style", "nav", "header", "footer", "aside"}

\* lines 83-84: the nodes left in the soup after the loop
AfterRemoval(d) ==
  (1..Len(d.nodes)) \
    UNION { Decomposed(d, i) : i \in { k \in 1..Len(d.nodes) : d.nodes[k].tag \in RemovedTags } }

First(S) == IF S = {} THEN 0 ELSE CHOOSE i \in S : \A j \in S : i <= j

\* soup.find(tag) over the nodes in the soup; 0 is None
Find(d, alive, tag) == First({ i \in alive : d.nodes[i].tag = tag })

IsSubstring(p, str) ==
  \E i \in 1..(Len(str) - Len(p) + 1) : SubSeq(str, i, i + Len(p) - 1) = p

\* line 86: re.compile(r"content|article|post|main"), matched with search()
ClassPatterns ==
  { <<"c", "o", "n", "t", "e", "n", "t">>, <<"a", "r", "t", "i", "c", "l", "e">>,
    <<"p", "o", "s", "t">>, <<"m", "a", "i", "n">> }

ClassMatches(class) == \E p \in ClassPatterns : IsSubstring(p, class)

\* line 86: soup.find("div", class_=...)
FindDivByClass(d, alive) ==
  First({ i \in alive : d.nodes[i].tag = "div" /\ ClassMatches(d.nodes[i].class) })

\* line 86: a or b or c or d, the first that is not None
OrElse(a, b) == IF a # 0 THEN a ELSE b

ArticleFirst(d, alive) ==
  OrElse(Find(d, alive, "article"),
    OrElse(Find(d, alive, "main"),
      OrElse(FindDivByClass(d, alive), Find(d, alive, "body"))))

MainContent(d, alive) ==
  OrElse(Find(d, alive, "main"),
    OrElse(Find(d, alive, "article"),
      OrElse(FindDivByClass(d, alive), Find(d, alive, "body"))))

Whitespace == {" ", "\n"}

\* str.strip()
RECURSIVE LStrip(_)
LStrip(str) ==
  IF str # <<>> /\ Head(str) \in Whitespace THEN LStrip(Tail(str)) ELSE str

RECURSIVE RStrip(_)
RStrip(str) ==
  IF str # <<>> /\ str[Len(str)] \in Whitespace
  THEN RStrip(SubSeq(str, 1, Len(str) - 1)) ELSE str

Strip(str) == RStrip(LStrip(str))

\* The text nodes get_text walks: those in the soup inside root (root 0: the
\* whole soup), in document order.
RECURSIVE StringsFrom(_, _, _, _)
StringsFrom(d, alive, root, i) ==
  IF i > Len(d.nodes) THEN <<>>
  ELSE LET rest == StringsFrom(d, alive, root, i + 1)
           mine == /\ i \in alive
                   /\ d.nodes[i].tag = "#text"
                   /\ (root = 0 \/ Inside(d, root, i))
       IN IF mine /\ Strip(d.nodes[i].text) # <<>>
          THEN <<Strip(d.nodes[i].text)>> \o rest ELSE rest

RECURSIVE Join(_, _)
Join(strs, sep) ==
  IF strs = <<>> THEN <<>>
  ELSE IF Len(strs) = 1 THEN Head(strs)
  ELSE Head(strs) \o sep \o Join(Tail(strs), sep)

\* get_text(separator=sep, strip=True)
GetText(d, alive, root, sep) == Join(StringsFrom(d, alive, root, 1), sep)

\* line 93: re.sub(r"\n+", "\n", text)
RECURSIVE CollapsePairs(_)
CollapsePairs(str) ==
  IF Len(str) >= 2 /\ str[1] = "\n" /\ str[2] = "\n"
  THEN <<"\n">> \o CollapsePairs(SubSeq(str, 3, Len(str)))
  ELSE IF str = <<>> THEN <<>>
  ELSE <<Head(str)>> \o CollapsePairs(Tail(str))

RECURSIVE SkipNewlines(_)
SkipNewlines(str) ==
  IF str # <<>> /\ Head(str) = "\n" THEN SkipNewlines(Tail(str)) ELSE str

RECURSIVE CollapseRuns(_)
CollapseRuns(str) ==
  IF str = <<>> THEN <<>>
  ELSE IF Head(str) = "\n" THEN <<"\n">> \o CollapseRuns(SkipNewlines(str))
  ELSE <<Head(str)>> \o CollapseRuns(Tail(str))

Collapse(str) == CollapseRuns(str)

\* lines 80-81
Title(d) ==
  LET t == Find(d, 1..Len(d.nodes), "title")
  IN IF t # 0 THEN GetText(d, 1..Len(d.nodes), t, <<>>) ELSE <<>>

\* lines 83-93
Content(d) ==
  LET alive == AfterRemoval(d)
  IN Collapse(GetText(d, alive, MainContent(d, alive), <<"\n">>))

(***************************************************************************)
(* /read (lines 60-104, 130-137)                                           *)
(***************************************************************************)
\* lines 95-100
ReadOk(final, d, code) ==
  [status |-> StatusOk,
   body |-> [url |-> final, title |-> Title(d), content |-> Content(d),
             status_code |-> code]]

\* lines 101-104: except httpx.RequestError, then except Exception
ReadError(class, msg) ==
  IF class = "RequestError"
  THEN [status |-> StatusFetchError,
        detail |-> [prefix |-> "Error fetching URL: ", msg |-> msg]]
  ELSE [status |-> StatusParseError,
        detail |-> [prefix |-> "Error parsing content: ", msg |-> msg]]

\* The request arrives; read() calls read_url, which constructs its client and
\* awaits the GET (lines 131-137, 70-76).
read_begin(r, Urls) ==
  /\ pc[r] = "idle"
  /\ \E u \in Urls : url' = [url EXCEPT ![r] = u]
  /\ kind' = [kind EXCEPT ![r] = "read"]
  /\ nextClient' = nextClient + 1
  /\ client' = [client EXCEPT ![r] = NewClient(nextClient)]
  /\ clientState' = [clientState EXCEPT ![r] = "open"]
  /\ calls' = [calls EXCEPT ![r] = <<Call("GET", NewClient(nextClient), NoCookies, "")>>]
  /\ pc' = [pc EXCEPT ![r] = "get"]
  /\ UNCHANGED <<raised, q, max_results, cookies, page, results, doc, container, extracted,
                 response>>

\* The GET raised inside the try block (lines 76, 101-104).
read_get_raise(r, Classes, Msgs) ==
  /\ pc[r] = "get" /\ kind[r] = "read"
  /\ \E class \in Classes, msg \in Msgs :
       response' = [response EXCEPT ![r] = ReadError(class, msg)]
  /\ calls' = [calls EXCEPT ![r] = Replied(calls[r], "raised")]
  /\ clientState' = [clientState EXCEPT ![r] = "closed"]
  /\ pc' = [pc EXCEPT ![r] = "done"]
  /\ raised' = [raised EXCEPT ![r] = "get"]
  /\ UNCHANGED <<kind, q, max_results, url, nextClient, client, cookies,
                 page, results, doc, container, extracted>>

\* The GET returned and the document is extracted (lines 76-100).
read_get_ok(r, Docs, Finals, Codes) ==
  /\ pc[r] = "get" /\ kind[r] = "read"
  /\ \E d \in Docs, final \in Finals \cup {url[r]}, code \in Codes :
       /\ doc' = [doc EXCEPT ![r] = d]
       /\ container' = [container EXCEPT ![r] = MainContent(d, AfterRemoval(d))]
       /\ response' = [response EXCEPT ![r] = ReadOk(final, d, code)]
  /\ extracted' = [extracted EXCEPT ![r] = TRUE]
  /\ calls' = [calls EXCEPT ![r] = Replied(calls[r], "ok")]
  /\ clientState' = [clientState EXCEPT ![r] = "closed"]
  /\ pc' = [pc EXCEPT ![r] = "done"]
  /\ UNCHANGED <<raised, kind, q, max_results, url, nextClient, client, cookies, page, results>>

\* The GET returned and the extraction raised (lines 78-93, 103-104).
read_extract_raise(r, Docs, Msgs) ==
  /\ pc[r] = "get" /\ kind[r] = "read"
  /\ \E d \in Docs, msg \in Msgs :
       /\ doc' = [doc EXCEPT ![r] = d]
       /\ response' = [response EXCEPT ![r] = ReadError("Exception", msg)]
  /\ extracted' = [extracted EXCEPT ![r] = TRUE]
  /\ calls' = [calls EXCEPT ![r] = Replied(calls[r], "ok")]
  /\ clientState' = [clientState EXCEPT ![r] = "closed"]
  /\ pc' = [pc EXCEPT ![r] = "done"]
  /\ raised' = [raised EXCEPT ![r] = "parse"]
  /\ UNCHANGED <<kind, q, max_results, url, nextClient, client, cookies, page, results,
                 container>>

(***************************************************************************)
(* Specifications                                                          *)
(***************************************************************************)
Init ==
  /\ pc = [r \in Reqs |-> "idle"]
  /\ kind = [r \in Reqs |-> "none"]
  /\ q = [r \in Reqs |-> ""]
  /\ max_results = [r \in Reqs |-> 0]
  /\ url = [r \in Reqs |-> ""]
  /\ nextClient = 0
  /\ client = [r \in Reqs |-> 0]
  /\ clientState = [r \in Reqs |-> "none"]
  /\ cookies = [r \in Reqs |-> NoCookies]
  /\ calls = [r \in Reqs |-> <<>>]
  /\ page = [r \in Reqs |-> <<>>]
  /\ results = [r \in Reqs |-> <<>>]
  /\ doc = [r \in Reqs |-> NoDoc]
  /\ container = [r \in Reqs |-> 0]
  /\ extracted = [r \in Reqs |-> FALSE]
  /\ raised = [r \in Reqs |-> "no"]
  /\ response = [r \in Reqs |-> NoResponse]

\* str(e) of the exceptions raised: httpx's timeouts carry an empty message.
ErrMsgs == {"", "All connection attempts failed"}

\* One /search request against every provider page of up to MaxElems elements.
SearchNext ==
  \/ search_begin(1, {"test"}, LimitParams(MaxLimit))
  \/ search_get_ok(1, {"session=1"})
  \/ search_call_raise(1, ErrMsgs)
  \/ search_post_ok(1, PagesUpTo(MaxElems))
  \/ search_parse_raise(1, PagesUpTo(MaxElems), ErrMsgs)

SearchSpec == Init /\ [][SearchNext]_vars

\* The exceptions client.get can raise: httpx.RequestError (transport), or
\* another Exception (httpx.InvalidURL is no RequestError).
ExcClasses == {"RequestError", "Exception"}

\* One /read request against every document of up to MaxNodes nodes.
ReadNext ==
  \/ read_begin(1, {"http://a.example/"})
  \/ read_get_raise(1, ExcClasses, ErrMsgs)
  \/ read_get_ok(1, DocsOver(ElementKinds \cup TextKinds, MaxNodes),
                 {"http://b.example/"}, {200, 404})
  \/ read_extract_raise(1, DocsOver(ElementKinds \cup TextKinds, MaxNodes), {"boom"})

ReadSpec == Init /\ [][ReadNext]_vars

\* One /read request against every text of up to MaxTextLen characters.
TextNext ==
  \/ read_begin(1, {"http://a.example/"})
  \/ read_get_raise(1, ExcClasses, {"boom"})
  \/ read_get_ok(1, TextDocs({"A", "B", "\n"}, MaxTextLen), {}, {200})
  \/ read_extract_raise(1, TextDocs({"A", "B", "\n"}, MaxTextLen), {"boom"})

TextSpec == Init /\ [][TextNext]_vars

\* NumReqs requests, each a /search or a /read, interleaved at their awaits.
ConcNext ==
  \E r \in Reqs :
    \/ search_begin(r, {"q1", "q2"}, {1})
    \/ search_get_ok(r, {"session=1", "session=2"})
    \/ search_call_raise(r, {"boom"})
    \/ search_post_ok(r, PagesUpTo(1))
    \/ search_parse_raise(r, PagesUpTo(1), {"boom"})
    \/ read_begin(r, {"http://a.example/"})
    \/ read_get_raise(r, ExcClasses, {"boom"})
    \/ read_get_ok(r, DocsOver(TextKinds, 1), {}, {200})
    \/ read_extract_raise(r, DocsOver(TextKinds, 1), {"boom"})

ConcSpec == Init /\ [][ConcNext]_vars

(***************************************************************************)
(* Properties                                                              *)
(***************************************************************************)
Done(r) == pc[r] = "done"
SearchDone(r) == Done(r) /\ kind[r] = "search"
SearchSucceeded(r) == SearchDone(r) /\ raised[r] = "no"
ReadDone(r) == Done(r) /\ kind[r] = "read"
ReadSucceeded(r) == ReadDone(r) /\ raised[r] = "no"

\* A valid result element: a result container that holds a result link.
HasResultLink(elem) == elem.a = "link"
ValidCount(p) == Cardinality({ i \in DOMAIN p : HasResultLink(p[i]) })
\* Position on the page of its n-th valid element.
NthValid(p, n) ==
  CHOOSE i \in DOMAIN p :
    HasResultLink(p[i]) /\ Cardinality({ j \in 1..i : HasResultLink(p[j]) }) = n

\* C1: every /search request whose pipeline raised (in the GET, in the POST or
\* while parsing) is answered with status 200 and a body holding the query, a
\* non-empty error string and an empty results list, whatever had been parsed.
C1_ErrorBodyNonEmpty ==
  \A r \in Reqs :
    (SearchDone(r) /\ raised[r] # "no") =>
      /\ response[r].status = 200
      /\ DOMAIN response[r].body = {"query", "error", "results"}
      /\ response[r].body.query = q[r]
      /\ response[r].body.error # ""
      /\ response[r].body.results = <<>>

\* C3: a successful parse returns exactly min(N, M) records, the records of the
\* first min(N, M) valid elements of the page, in document order.
C3_FirstValidInOrder ==
  \A r \in Reqs :
    SearchSucceeded(r) =>
      LET res == response[r].body.results
          p == page[r]
      IN /\ Len(res) = Min(max_results[r], ValidCount(p))
         /\ \A n \in 1..Len(res) : res[n] = ResultOf(p[NthValid(p, n)])

C3_Witness ==
  \E r \in Reqs :
    /\ SearchSucceeded(r)
    /\ ValidCount(page[r]) > max_results[r]
    /\ Len(response[r].body.results) = max_results[r]
    /\ max_results[r] >= 2
    /\ response[r].body.results[1] # response[r].body.results[2]
    /\ response[r].body.results[2] = response[r].body.results[max_results[r]]

\* C4: in a successful /search response results_count is the length of
\* results and at most the limit, which lies in 1..50.
C4_CountIsLength ==
  \A r \in Reqs :
    SearchSucceeded(r) =>
      /\ response[r].body.results_count = Len(response[r].body.results)
      /\ response[r].body.results_count <= max_results[r]
      /\ max_results[r] \in 1..50

\* limit=5 against a page of 8 valid results: results_count 5, 5 entries
C4_Witness ==
  \E r \in Reqs :
    /\ SearchSucceeded(r)
    /\ max_results[r] = 5
    /\ Len(page[r]) = 8 /\ ValidCount(page[r]) = 8
    /\ response[r].body.results_count = 5
    /\ Len(response[r].body.results) = 5

\* C8: no record comes from an element without a result link, and such
\* elements do not use up the limit: fewer than N records are returned only
\* when the page has no more valid elements.
C8_LinklessSkipped ==
  \A r \in Reqs :
    SearchSucceeded(r) =>
      LET res == response[r].body.results
      IN /\ \A n \in 1..Len(res) : res[n].title # "none" /\ res[n].url # "none"
         /\ Len(res) < max_results[r] => Len(res) = ValidCount(page[r])
         /\ Len(res) <= ValidCount(page[r])

\* a page whose first element has no link, and N valid ones were still found,
\* the last of them beyond position N
C8_Witness ==
  \E r \in Reqs :
    /\ SearchSucceeded(r)
    /\ Len(page[r]) > 0 /\ ~HasResultLink(page[r][1])
    /\ Len(response[r].body.results) = max_results[r]
    /\ NthValid(page[r], max_results[r]) > max_results[r]

\* C2: a failure of the GET itself is answered 400 "Error fetching URL:" and
\* nothing is extracted; 500 "Error parsing content:" only answers a fetch
\* that succeeded and an extraction that failed; 200 only answers a fetch and
\* an extraction that both succeeded.
C2_FetchFailureIs400 ==
  \A r \in Reqs :
    ReadDone(r) =>
      /\ calls[r][1].outcome = "raised" =>
           /\ response[r].status = 400
           /\ response[r].detail.prefix = "Error fetching URL: "
           /\ ~extracted[r]
      /\ response[r].status = 500 =>
           /\ response[r].detail.prefix = "Error parsing content: "
           /\ calls[r][1].outcome = "ok"
           /\ extracted[r]
           /\ raised[r] = "parse"
      /\ response[r].status = 200 =>
           /\ calls[r][1].outcome = "ok"
           /\ extracted[r]
           /\ raised[r] = "no"

Boilerplate == {"script", "style", "nav", "header", "footer", "aside"}

\* The nodes that are neither a boilerplate element nor inside one.
Remaining(d) ==
  { j \in 1..Len(d.nodes) :
      /\ d.nodes[j].tag \notin Boilerplate
      /\ \A i \in 1..(j - 1) : Inside(d, i, j) => d.nodes[i].tag \notin Boilerplate }

Tagged(d, S, tag) == { i \in S : d.nodes[i].tag = tag }

\* C5: the container is the first <main> of the document, else its first
\* <article>, else its first element of any tag whose class contains content,
\* article, post or main, else its body, else the whole remaining document; a
\* document with a <main> and an <article> yields the <main>.
C5_PriorityAnyTag ==
  \A r \in Reqs :
    ReadSucceeded(r) =>
      LET d == doc[r]
          all == 1..Len(d.nodes)
          classed == { i \in all : d.nodes[i].tag # "#text" /\ ClassMatches(d.nodes[i].class) }
      IN container[r] =
           IF Tagged(d, all, "main") # {} THEN First(Tagged(d, all, "main"))
           ELSE IF Tagged(d, all, "article") # {} THEN First(Tagged(d, all, "article"))
           ELSE IF classed # {} THEN First(classed)
           ELSE IF Tagged(d, all, "body") # {} THEN First(Tagged(d, all, "body"))
           ELSE 0

\* C5 as amended: among the nodes that remain once the script, style, nav,
\* header, footer and aside subtrees are removed, the container is the first
\* <main>, else the first <article>, else the first <div> whose class contains
\* content, article, post or main, else the body, else the whole remaining
\* document; the content is the text of that container.
C5_PriorityRemainingDiv ==
  \A r \in Reqs :
    ReadSucceeded(r) =>
      LET d == doc[r]
          rem == Remaining(d)
          classed == { i \in Tagged(d, rem, "div") : ClassMatches(d.nodes[i].class) }
          chosen ==
            IF Tagged(d, rem, "main") # {} THEN First(Tagged(d, rem, "main"))
            ELSE IF Tagged(d, rem, "article") # {} THEN First(Tagged(d, rem, "article"))
            ELSE IF classed # {} THEN First(classed)
            ELSE IF Tagged(d, rem, "body") # {} THEN First(Tagged(d, rem, "body"))
            ELSE 0
      IN /\ container[r] = chosen
         /\ response[r].body.content = Collapse(GetText(d, rem, chosen, <<"\n">>))

\* an <article> comes before a <main> in the document, the <main> is chosen
\* and its text is the content
C5_Witness ==
  \E r \in Reqs :
    /\ ReadSucceeded(r)
    /\ Len(doc[r].nodes) = 3
    /\ doc[r].nodes[1].tag = "article"
    /\ doc[r].nodes[2].tag = "main"
    /\ doc[r].nodes[3] = Text(<<"A">>) /\ doc[r].depth[3] = doc[r].depth[2] + 1
    /\ container[r] = 2
    /\ response[r].body.content = <<"A">>

\* The document with the text of every text node inside a boilerplate element
\* erased.
WithoutBoilerplateText(d) ==
  [d EXCEPT !.nodes =
     [j \in 1..Len(d.nodes) |->
        IF d.nodes[j].tag = "#text" /\ j \notin Remaining(d) THEN Text(<<>>)
        ELSE d.nodes[j]]]

\* C6: the content holds no text from inside a script, style, nav, header,
\* footer or aside element, nested or not: it is the content of the document
\* in which all such text is erased, and it is built from remaining nodes only.
C6_NoBoilerplateText ==
  \A r \in Reqs :
    ReadSucceeded(r) =>
      /\ response[r].body.content = Content(WithoutBoilerplateText(doc[r]))
      /\ response[r].body.content =
           Collapse(GetText(doc[r], Remaining(doc[r]), container[r], <<"\n">>))
      /\ container[r] # 0 => container[r] \in Remaining(doc[r])

\* a boilerplate element with text in it, nested inside the chosen container
C6_Witness ==
  \E r \in Reqs :
    /\ ReadSucceeded(r)
    /\ container[r] # 0
    /\ \E i, j \in 1..Len(doc[r].nodes) :
         /\ Inside(doc[r], container[r], i)
         /\ doc[r].nodes[i].tag \in Boilerplate
         /\ Inside(doc[r], i, j)
         /\ doc[r].nodes[j].tag = "#text"
         /\ Strip(doc[r].nodes[j].text) # <<>>
    /\ response[r].body.content = <<>>

\* The text serialized from the chosen container, before line 93.
RawText(r) == GetText(doc[r], AfterRemoval(doc[r]), container[r], <<"\n">>)

\* The characters of str that are not a newline following a newline.
Kept(str) == { i \in 1..Len(str) : ~(str[i] = "\n" /\ i > 1 /\ str[i - 1] = "\n") }
NthOf(S, n) == CHOOSE i \in S : Cardinality({ j \in S : j <= i }) = n

\* C7: the content never holds two newlines in a row; it is the raw text with
\* each run of newlines cut to its first, every other character in place; and
\* collapsing it again changes nothing.
C7_NewlineRunsCollapsed ==
  \A r \in Reqs :
    ReadSucceeded(r) =>
      LET c == response[r].body.content
          raw == RawText(r)
      IN /\ \A i \in 1..(Len(c) - 1) : ~(c[i] = "\n" /\ c[i + 1] = "\n")
         /\ Len(c) = Cardinality(Kept(raw))
         /\ \A n \in 1..Len(c) : c[n] = raw[NthOf(Kept(raw), n)]
         /\ Collapse(c) = c

\* raw text "A\n\n\nB" yields "A\nB"
C7_Witness ==
  \E r \in Reqs :
    /\ ReadSucceeded(r)
    /\ RawText(r) = <<"A", "\n", "\n", "\n", "B">>
    /\ response[r].body.content = <<"A", "\n", "B">>

\* C9: a /search request issues its GET first and its POST, with
\* {q: query, kl: ""} and the cookies of that GET, only once the GET has
\* succeeded; at most one GET and one POST; a call that raised is the last.
C9_GetThenPostOnce ==
  \A r \in Reqs :
    kind[r] = "search" =>
      LET cs == calls[r] IN
      /\ Len(cs) \in 1..2
      /\ cs[1].method = "GET"
      /\ pc[r] = "get" => Len(cs) = 1 /\ cs[1].outcome = "pending"
      /\ pc[r] = "post" => Len(cs) = 2 /\ cs[2].outcome = "pending"
      /\ Len(cs) = 2 =>
           /\ cs[1].outcome = "ok"
           /\ cs[2].method = "POST"
           /\ cs[2].data = [q |-> q[r], kl |-> ""]
           /\ cookies[r] # NoCookies
           /\ cs[2].cookies = cookies[r]
      /\ \A i \in 1..Len(cs) : cs[i].outcome = "raised" => i = Len(cs) /\ Done(r)
      /\ raised[r] = "get" => Len(cs) = 1

\* a request whose POST, carrying the cookies of its GET, raised
C9_Witness ==
  \E r \in Reqs :
    /\ SearchDone(r)
    /\ Len(calls[r]) = 2
    /\ calls[r][2].cookies = "session=2"
    /\ calls[r][2].outcome = "raised"

\* What request r owns.
Own(r) ==
  <<pc[r], kind[r], q[r], max_results[r], url[r], client[r], clientState[r], cookies[r],
    calls[r], page[r], results[r], doc[r], container[r], extracted[r], raised[r],
    response[r]>>

C10_Own ==
  /\ \A r, s \in Reqs : (r # s /\ client[r] # 0) => client[r] # client[s]
  /\ \A r \in Reqs :
       /\ \A i \in 1..Len(calls[r]) :
            /\ calls[r][i].client = client[r]
            /\ calls[r][i].method = "POST" => calls[r][i].cookies = cookies[r]
       /\ clientState[r] = (IF pc[r] = "idle" THEN "none"
                            ELSE IF Done(r) THEN "closed" ELSE "open")
       /\ SearchDone(r) =>
            response[r] = (IF raised[r] = "no"
                           THEN SearchOk(q[r], ParseResults(page[r], max_results[r]).results,
                                         max_results[r])
                           ELSE [response[r] EXCEPT !.body.query = q[r],
                                                    !.body.results = <<>>])
       /\ ReadSucceeded(r) =>
            /\ response[r].body.content = Content(doc[r])
            /\ response[r].body.title = Title(doc[r])

\* C10: under any interleaving every request uses its own client and its own
\* cookies, its client is closed whenever it is done, its response is
\* determined by its own inputs and replies, and a step of one request leaves
\* everything the other requests own unchanged.
C10_Isolation ==
  /\ []C10_Own
  /\ [][\A r \in Reqs : pc'[r] = pc[r] => Own(r)' = Own(r)]_vars

\* two searches in flight at once that captured different cookies, both done
C10_Witness ==
  \E r, s \in Reqs :
    /\ r # s
    /\ SearchSucceeded(r) /\ SearchSucceeded(s)
    /\ client[r] > client[s]
    /\ Len(calls[s]) = 2
    /\ calls[r][2].cookies = "session=1" /\ calls[s][2].cookies = "session=2"
    /\ q[r] # q[s]

====
